---- MODULE Spec2Model ----
(***************************************************************************)
(* Model of src/widget_callback.js: the selection-change handler of a      *)
(* multi-select control.  The handler reads cb_obj.active, group_list and  *)
(* the columns source.data['index'] / source.data['widget_group'], writes  *)
(* source.selected.indices and calls source.change.emit().                  *)
(*                                                                         *)
(* The file carries no "use strict" directive, so it is modelled with the  *)
(* semantics of non-strict code: the assignment to the undeclared name      *)
(* to_select_inds (line 13) creates a property of the global object.        *)
(*                                                                         *)
(* JavaScript arrays are modelled as sequences; JavaScript positions are   *)
(* 0-based, so arr[i] is At(arr, i).                                        *)
(***************************************************************************)
EXTENDS Integers, Sequences, FiniteSets, TLC

\* ------------------------------------------------------------------ bounds
MaxGroups == 2
MaxRows == 2
MaxActive == 2

\* ------------------------------------------------------------ input domains
Labels == {"A", "B"}
Undefined == "undefined"

SeqsUpTo(S, n) == UNION {[1..k -> S] : k \in 0..n}

GroupLists == SeqsUpTo(Labels, MaxGroups)
GroupColumns == SeqsUpTo(Labels, MaxRows)
IndexColumns == {[k \in 1..n |-> k - 1] : n \in 0..MaxRows}
ActiveValues == (-1)..MaxGroups
ActiveLists == SeqsUpTo(ActiveValues, MaxActive)

\* ------------------------------------------------------- JavaScript arrays
\* arr[i]: a read outside 0..length-1 yields undefined.
At(arr, i) == IF i \in 0..(Len(arr) - 1) THEN arr[i + 1] ELSE Undefined

\* Array.prototype.includes(x).
Includes(arr, x) == \E k \in 1..Len(arr) : arr[k] = x

\* Array.prototype.push(x).
Push(arr, x) == Append(arr, x)

Range(arr) == {arr[k] : k \in 1..Len(arr)}

\* ------------------------------------------------------------------- state
VARIABLES
    active,                \* cb_obj.active
    group_list,            \* group_list
    index,                 \* source.data['index']
    widget_group,          \* source.data['widget_group']
    selected,              \* the array held by source.selected.indices
    globals,               \* names the handler has created on the global object
    to_select_inds,        \* the array the global to_select_inds refers to
    aliased,               \* to_select_inds and source.selected.indices are one array
    chosen_inds,           \* var chosen_inds
    chosen_widget_groups,  \* var chosen_widget_groups
    pc,                    \* position of the handler
    emits,                 \* source.change.emit() calls of the current invocation
    rendered,              \* source.selected.indices as read by the observers of change
    prev_selected,         \* source.selected.indices when the invocation started
    repeated               \* the invocation has the inputs of the one before it

vars == <<active, group_list, index, widget_group, selected, globals,
          to_select_inds, aliased, chosen_inds, chosen_widget_groups, pc,
          emits, rendered, prev_selected, repeated>>

inputs == <<active, group_list, index, widget_group>>
locals == <<chosen_inds, chosen_widget_groups>>
ghosts == <<emits, rendered, prev_selected, repeated>>

\* The handler compares labels for equality only, so the group list and the
\* widget_group column are taken up to a renaming of the labels: the first
\* label met in them is "A".
FirstLabelIsA(gl, wg) ==
    IF Len(gl) > 0 THEN gl[1] = "A" ELSE (Len(wg) > 0 => wg[1] = "A")

Init ==
    /\ active = <<>>
    /\ group_list \in GroupLists
    /\ index \in IndexColumns
    /\ widget_group \in GroupColumns
    /\ FirstLabelIsA(group_list, widget_group)
    /\ selected = <<>>
    /\ globals = {}
    /\ to_select_inds = <<>>
    /\ aliased = FALSE
    /\ chosen_inds = <<>>
    /\ chosen_widget_groups = <<>>
    /\ pc = "idle"
    /\ emits = 0
    /\ rendered = <<>>
    /\ prev_selected = <<>>
    /\ repeated = FALSE

\* ------------------------------------------------------------------- loops
\* Mutant: the last group is never tested (i < group_list.length - 1).
GroupsCondShort(gl, k) == k < Len(gl) - 1

\* Mutant: one position past the end is tested (i <= group_list.length).
GroupsCondOver(gl, k) == k <= Len(gl)

\* i < group_list.length
GroupsCond(gl, k) == k < Len(gl)

\* Mutant: the active list is read as a mask (if (chosen_inds[i]) ...).
GroupsBodyMask(cwg, chosen, gl, k) ==
    IF k < Len(chosen) /\ chosen[k + 1] # 0 THEN Push(cwg, At(gl, k)) ELSE cwg

\* if (chosen_inds.includes(i)) { chosen_widget_groups.push(group_list[i]) }
GroupsBody(cwg, chosen, gl, k) ==
    IF Includes(chosen, k) THEN Push(cwg, At(gl, k)) ELSE cwg

\* for (var i = 0; i < group_list.length; ++ i) { ... }, entered with i = k
RECURSIVE GroupsLoop(_, _, _, _)
GroupsLoop(cwg, chosen, gl, k) ==
    IF GroupsCond(gl, k)
    THEN GroupsLoop(GroupsBody(cwg, chosen, gl, k), chosen, gl, k + 1)
    ELSE cwg

\* Mutant: the scan is bounded by the other column
\* (i < source.data['widget_group'].length).
RowsCondGroupColumn(idx, k) == k < Len(widget_group)

\* i < source.data['index'].length
RowsCond(idx, k) == k < Len(idx)

\* Mutant: the row is pushed once for every entry of chosen_widget_groups it
\* equals (a nested loop in place of includes).
RowsBodyPerMatch(tsi, cwg, wg, k) ==
    tsi \o [j \in 1..Cardinality({m \in 1..Len(cwg) : cwg[m] = At(wg, k)}) |-> k]

\* if (chosen_widget_groups.includes(source.data['widget_group'][i])) {
\*     to_select_inds.push(i) }
RowsBody(tsi, cwg, wg, k) ==
    IF Includes(cwg, At(wg, k)) THEN Push(tsi, k) ELSE tsi

\* for (var i = 0; i < source.data['index'].length; ++ i) { ... }, entered
\* with i = k
RECURSIVE RowsLoop(_, _, _, _, _)
RowsLoop(tsi, cwg, idx, wg, k) ==
    IF RowsCond(idx, k)
    THEN RowsLoop(RowsBody(tsi, cwg, wg, k), cwg, idx, wg, k + 1)
    ELSE tsi

\* The array the handler assigns to source.selected.indices when it runs on
\* an active list, a group list and the two columns: lines 3 to 21 as a
\* function of what they read.
Callback(chosen, gl, idx, wg) ==
    RowsLoop(<<>>, GroupsLoop(<<>>, chosen, gl, 0), idx, wg, 0)

\* ----------------------------------------------------------------- handler
\* The control changes its active list and the host calls the handler.
Trigger ==
    /\ pc = "idle"
    /\ \E a \in ActiveLists :
        /\ active' = a
        /\ repeated' = (a = active)
    /\ pc' = "l3"
    /\ emits' = 0
    /\ prev_selected' = selected
    /\ UNCHANGED <<group_list, index, widget_group, selected, globals,
                   to_select_inds, aliased, locals, rendered>>

\* var chosen_inds = cb_obj.active; var chosen_widget_groups = [];
InitGroups ==
    /\ pc = "l3"
    /\ chosen_inds' = active
    /\ chosen_widget_groups' = <<>>
    /\ pc' = "l7"
    /\ UNCHANGED <<inputs, selected, globals, to_select_inds, aliased, ghosts>>

\* The first loop, run to its end.
BuildGroups ==
    /\ pc = "l7"
    /\ chosen_widget_groups' =
           GroupsLoop(chosen_widget_groups, chosen_inds, group_list, 0)
    /\ pc' = "l13"
    /\ UNCHANGED <<inputs, selected, globals, to_select_inds, aliased,
                   chosen_inds, ghosts>>

\* Mutant: the global of the invocation before is kept
\* (to_select_inds = to_select_inds || []).
ResetSelectKeep ==
    /\ pc = "l13"
    /\ globals' = globals \cup {"to_select_inds"}
    /\ pc' = "l15"
    /\ UNCHANGED <<inputs, selected, to_select_inds, aliased, locals, ghosts>>

\* Mutant: the scan adds to the current selection
\* (to_select_inds = source.selected.indices).
ResetSelectFromSelected ==
    /\ pc = "l13"
    /\ globals' = globals \cup {"to_select_inds"}
    /\ to_select_inds' = selected
    /\ aliased' = TRUE
    /\ pc' = "l15"
    /\ UNCHANGED <<inputs, selected, locals, ghosts>>

\* to_select_inds = []  (no var: the name is created on the global object,
\* and it is bound to a fresh array, so the array source.selected.indices
\* holds is left as it is)
ResetSelect ==
    /\ pc = "l13"
    /\ globals' = globals \cup {"to_select_inds"}
    /\ to_select_inds' = <<>>
    /\ aliased' = FALSE
    /\ pc' = "l15"
    /\ UNCHANGED <<inputs, selected, locals, ghosts>>

\* The second loop, run to its end; a push reaches source.selected.indices
\* when the two names hold one array.
BuildRows ==
    /\ pc = "l15"
    /\ to_select_inds' =
           RowsLoop(to_select_inds, chosen_widget_groups, index, widget_group, 0)
    /\ selected' = IF aliased THEN to_select_inds' ELSE selected
    /\ pc' = "l21"
    /\ UNCHANGED <<inputs, globals, aliased, locals, ghosts>>

\* Mutant: lines 21 and 22 in the other order: the observers read the
\* selection before it is written.
AssignSelectedAfterEmit ==
    /\ pc = "l21"
    /\ emits' = emits + 1
    /\ rendered' = selected
    /\ selected' = to_select_inds
    /\ aliased' = TRUE
    /\ pc' = "done"
    /\ UNCHANGED <<inputs, globals, to_select_inds, locals, prev_selected,
                   repeated>>

\* source.selected.indices = to_select_inds
AssignSelected ==
    /\ pc = "l21"
    /\ selected' = to_select_inds
    /\ aliased' = TRUE
    /\ pc' = "l22"
    /\ UNCHANGED <<inputs, globals, to_select_inds, locals, ghosts>>

\* Mutant: the notification is skipped when the selection did not change.
EmitIfChanged ==
    /\ pc = "l22"
    /\ IF selected # prev_selected
       THEN emits' = emits + 1 /\ rendered' = selected
       ELSE UNCHANGED <<emits, rendered>>
    /\ pc' = "done"
    /\ UNCHANGED <<inputs, selected, globals, to_select_inds, aliased, locals,
                   prev_selected, repeated>>

\* source.change.emit(): the observers of change read the selection.
Emit ==
    /\ pc = "l22"
    /\ emits' = emits + 1
    /\ rendered' = selected
    /\ pc' = "done"
    /\ UNCHANGED <<inputs, selected, globals, to_select_inds, aliased, locals,
                   prev_selected, repeated>>

\* The handler returns to the event loop: its locals go out of scope, and
\* the next selection-change event can be delivered.
Return ==
    /\ pc = "done"
    /\ chosen_inds' = <<>>
    /\ chosen_widget_groups' = <<>>
    /\ pc' = "idle"
    /\ emits' = 0
    /\ prev_selected' = <<>>
    /\ repeated' = FALSE
    /\ UNCHANGED <<inputs, selected, globals, to_select_inds, aliased, rendered>>

Next ==
    \/ Trigger
    \/ InitGroups
    \/ BuildGroups
    \/ ResetSelect
    \/ BuildRows
    \/ AssignSelected
    \/ Emit
    \/ Return

Spec == Init /\ [][Next]_vars

\* -------------------------------------------------------------- properties
\* The labels of the active positions of the group list: group_list[k] for
\* the k that occur in the active list and are positions of the group list.
ActiveLabels ==
    {group_list[k + 1] : k \in Range(active) \cap (0..(Len(group_list) - 1))}

HasDuplicates(arr) == Cardinality(Range(arr)) < Len(arr)

Ascending(arr) == \A j, k \in 1..Len(arr) : j < k => arr[j] < arr[k]

\* The entries of an active list that are positions of the group list.
ValidOnly(a) == SelectSeq(a, LAMBDA x : x \in 0..(Len(group_list) - 1))

\* C1: with columns of equal length, once the handler has run a row position
\* r is in source.selected.indices iff widget_group[r] is group_list[k] for
\* some k of the active list that is a position of group_list.
C1_SelectedIffActiveGroup ==
    (pc = "done" /\ Len(index) = Len(widget_group)) =>
        \A r \in 0..(Len(index) - 1) :
            (r \in Range(selected)) <=> (widget_group[r + 1] \in ActiveLabels)

\* C1 witness: a label stands at two positions of group_list, one of them
\* active and one not, and a row with that label is selected while another
\* row is not.
C1_Witness ==
    /\ pc = "done"
    /\ Len(index) = Len(widget_group)
    /\ \E j, k \in 0..(Len(group_list) - 1) :
        /\ group_list[j + 1] = group_list[k + 1]
        /\ j \in Range(active)
        /\ k \notin Range(active)
    /\ selected # <<>>
    /\ Len(selected) < Len(index)

\* C2: source.selected.indices is strictly ascending, so no row position
\* occurs in it twice.
C2_StrictlyAscending == Ascending(selected)

\* C2 witness: the handler has selected two rows from a list of active
\* labels that holds a label twice.
C2_Witness ==
    /\ pc = "done"
    /\ HasDuplicates(chosen_widget_groups)
    /\ Len(selected) >= 2

\* C3: an invocation that has finished has emitted exactly one notification,
\* and one that has not reached its end has emitted none.
C3_EmitsExactlyOnce ==
    /\ pc = "done" => emits = 1
    /\ pc # "done" => emits = 0

\* C3 witness: a notification was emitted although the selection is the one
\* the invocation found.
C3_Witness ==
    /\ pc = "done"
    /\ emits = 1
    /\ selected = prev_selected
    /\ selected # <<>>

\* C4: with an empty active list the handler leaves an empty selection.
C4_EmptyActiveClears ==
    (pc = "done" /\ active = <<>>) => selected = <<>>

\* C4 witness: an invocation with an empty active list has cleared a
\* selection that was not empty.
C4_Witness ==
    /\ pc = "done"
    /\ active = <<>>
    /\ prev_selected # <<>>
    /\ selected = <<>>

\* C5: the selection the handler leaves is the one it computes for every
\* other active list with the same set of entries.
C5_DependsOnlyOnSet ==
    pc = "done" =>
        \A a \in SeqsUpTo(Range(active), MaxActive) :
            Range(a) = Range(active) =>
                Callback(a, group_list, index, widget_group) = selected

\* C5 witness: the active list has a repeated entry or is out of order, and
\* rows are selected.
C5_Witness ==
    /\ pc = "done"
    /\ Len(active) >= 2
    /\ ~Ascending(active)
    /\ selected # <<>>

\* C6: entries of the active list that are no position of group_list put
\* nothing into chosen_widget_groups; the invocation ends with its
\* notification and with the selection computed from the active list without
\* those entries.
C6_OutOfRangeIgnored ==
    /\ Range(chosen_widget_groups) \subseteq Range(group_list)
    /\ pc = "done" =>
        /\ emits = 1
        /\ selected = Callback(ValidOnly(active), group_list, index, widget_group)

\* C6 witness: the active list holds an entry that is no position of
\* group_list beside one that is, and rows are selected.
C6_Witness ==
    /\ pc = "done"
    /\ ValidOnly(active) # active
    /\ ValidOnly(active) # <<>>
    /\ selected # <<>>

\* C7: the selection the handler leaves is a function of the active list,
\* the group list and the columns of that invocation, whatever the selection
\* was before; an invocation with the inputs of the one before it leaves the
\* same selection and notifies again.
C7_StatelessIdempotent ==
    pc = "done" =>
        /\ selected = Callback(active, group_list, index, widget_group)
        /\ repeated => (selected = prev_selected /\ emits = 1)

\* C7 witness: the handler ran a second time on the same inputs and rows are
\* selected.
C7_Witness ==
    /\ pc = "done"
    /\ repeated
    /\ selected # <<>>

\* C8: a step of the handler changes neither the active list, the group list
\* or the columns, nor any state other than source.selected.indices.
C8_OnlySelectedChanges ==
    [][pc # "idle" =>
        /\ active' = active
        /\ group_list' = group_list
        /\ index' = index
        /\ widget_group' = widget_group
        /\ globals' = globals]_vars

\* C9: until line 21 the selection is the one the invocation found; when the
\* notification has been emitted the observers have read the selection of
\* this invocation's active list; and between invocations what they read is
\* the selection.
C9_WriteBeforeEmit ==
    /\ pc \in {"l3", "l7", "l13", "l15", "l21"} => selected = prev_selected
    /\ pc = "done" =>
        rendered = Callback(active, group_list, index, widget_group)
    /\ pc \in {"done", "idle"} => rendered = selected

\* C9 witness: the observers have read a selection that differs from the one
\* before the invocation, neither of them empty.
C9_Witness ==
    /\ pc = "done"
    /\ rendered # prev_selected
    /\ rendered # <<>>
    /\ prev_selected # <<>>

\* C10: whatever the lengths of the two columns, the invocation ends with its
\* notification, and every selected position is a position of both columns
\* whose widget_group entry is an active label.
C10_MismatchedLengths ==
    pc = "done" =>
        /\ emits = 1
        /\ \A r \in Range(selected) :
            /\ 0 <= r
            /\ r < Len(index)
            /\ r < Len(widget_group)
            /\ widget_group[r + 1] \in ActiveLabels

\* C10 witness: the index column is longer than widget_group, so the scan
\* has read past the end of widget_group, and rows are selected.
C10_Witness ==
    /\ pc = "done"
    /\ Len(index) > Len(widget_group)
    /\ selected # <<>>

====
